---- MODULE Spec2Model ----
(***************************************************************************)
(* Model of atproto-car-extractor (main.go): the batch driver `run`, the   *)
(* per-identifier pipeline `processRepo` (identity lookup, downloadRepo,   *)
(* unpackRecords, downloadBlobs) and the output sink (the files written    *)
(* with os.WriteFile under cars/ and records/).                            *)
(*                                                                         *)
(* Remote state (the archive of every repository and its blob listing) is  *)
(* an input fixed by Init; transport and file-system failures are chosen   *)
(* at the call that can fail.  Keys, content hashes and cursor tokens are  *)
(* numbers: the key order of the tree is the order of the numbers, cursor  *)
(* 0 is the empty string and cursor -1 the absent (nil) cursor.            *)
(***************************************************************************)
EXTENDS Integers, Sequences, FiniteSets, TLC

\* ------------------------------------------------------------------ bounds
MaxDids  == 3   \* longest identifier list of the batch specification
NumKeys  == 3   \* record keys 1..NumKeys
NumCids  == 2   \* blob content hashes 1..NumCids
MaxCalls == 3   \* listing calls of one downloadBlobs run that the model follows
MaxFile  == 5   \* characters of the identifier file, where every file is read

Keys   == 1..NumKeys
Cids   == 1..NumCids
\* one non-empty cursor token: a listing is one page, two pages, or a cycle
Tokens == {1}
\* a page of a listing holds at most two content hashes
PageLens == 0..2

EmptyCursor == 0
NilCursor   == -1

\* ------------------------------------------------------------- identifiers
DIDs   == {"did:plc:a", "did:plc:b"}
Idents == {"did:plc:a", "alice.test", "did:plc:b", "not an id"}

\* syntax.ParseAtIdentifier: a pure check of the string; of the strings the
\* model reads from the identifier file, these are a DID or a handle
ParseAtIdentifier(s) == s \in {"did:plc:a", "alice.test", "did:plc:b"}

\* identity.Directory.Lookup, when it succeeds: the DID the identifier names
Lookup(s) == IF s = "did:plc:b" THEN "did:plc:b" ELSE "did:plc:a"

\* ----------------------------------------------------- the identifier file
\* The content of the file is a sequence of characters: the newline, other
\* white space, and pieces of text.  A piece stands for a run of characters
\* with no newline and no white space at either end (an identifier, or
\* "not an id"); two pieces in a row are one piece, so files never hold two
\* in a row.
NewLine == "\n"
Spaces  == {" ", "\r"}

\* unicode.IsSpace, as strings.TrimSpace uses it
IsSpace(c) == c = NewLine \/ c \in Spaces

Files(chars, n) ==
  {f \in UNION {[1..m -> chars] : m \in 0..n} :
     \A p \in 1..Len(f) - 1 : IsSpace(f[p]) \/ IsSpace(f[p + 1])}

\* the first newline of s, or 0
RECURSIVE Index(_, _)
Index(s, p) ==
  IF p > Len(s) THEN 0 ELSE IF s[p] = NewLine THEN p ELSE Index(s, p + 1)

\* strings.Split(s, "\n"): cut at every newline, the newlines dropped; a
\* string without newline is its only line, also when it is empty
RECURSIVE Split(_)
Split(s) ==
  LET p == Index(s, 1)
  IN IF p = 0 THEN <<s>>
     ELSE <<SubSeq(s, 1, p - 1)>> \o Split(SubSeq(s, p + 1, Len(s)))

RECURSIVE TrimLeft(_)
TrimLeft(l) == IF l # <<>> /\ IsSpace(Head(l)) THEN TrimLeft(Tail(l)) ELSE l

RECURSIVE TrimRight(_)
TrimRight(l) ==
  IF l # <<>> /\ IsSpace(l[Len(l)]) THEN TrimRight(SubSeq(l, 1, Len(l) - 1)) ELSE l

\* mutant: only leading white space is trimmed
TrimSpaceLeftOnly(l) == TrimLeft(l)

\* strings.TrimSpace
TrimSpace(l) == TrimRight(TrimLeft(l))

\* the Go string of a sequence of characters
RECURSIVE String(_)
String(l) == IF l = <<>> THEN "" ELSE Head(l) \o String(Tail(l))

\* the loop of readDIDsFromFile over the lines: trim, keep what is not empty
RECURSIVE Collect(_)
Collect(lines) ==
  IF lines = <<>> THEN <<>>
  ELSE LET line == String(TrimSpace(Head(lines)))
       IN (IF line # "" THEN <<line>> ELSE <<>>) \o Collect(Tail(lines))

\* readDIDsFromFile, when os.ReadFile returned content
readDIDsFromFile(content) == Collect(Split(content))

\* a file with one identifier per line
RECURSIVE OnePerLine(_)
OnePerLine(l) ==
  IF l = <<>> THEN <<>>
  ELSE IF Len(l) = 1 THEN l
  ELSE <<Head(l), NewLine>> \o OnePerLine(Tail(l))

\* --------------------------------------------------------------- the sink
\* A file is absent, holds bytes from before this process ("old"), holds the
\* whole unit this process wrote, or is the truncated rest of a failed write.
Content == {"absent", "old", "partial", "whole"}

\* os.WriteFile opens with O_CREATE|O_TRUNC and then writes: "eopen" fails before
\* the file is touched, "eio" after it was truncated.
WriteOutcomes == {"ok", "eopen", "eio"}

\* mutant: WriteFile reports success or failure but nothing reaches the file
WriteFileLost(old, w) == old

WriteFile(old, w) ==
  IF w = "ok" THEN "whole" ELSE IF w = "eio" THEN "partial" ELSE old

\* mutant: a file counts as present only when its bytes are the whole blob
StatVerified(c) == c = "whole"

\* mutant: the existence check never finds the file
StatNever(c) == FALSE

\* os.Stat(blobPath) returns err == nil
StatOK(c) == c # "absent"

\* --------------------------------------------------------------- archives
\* The archive of a repository: per key the state of its record ("none": the
\* key is not in the tree, "ok", "noblock": GetRecord fails, "nojson":
\* MarshalIndent fails), and breakAt: 0, or the key at which walking the
\* tree fails (a node that cannot be loaded).
RecStatus == {"none", "ok", "noblock", "nojson"}

Malformed == [malformed |-> TRUE, rec |-> [k \in Keys |-> "none"], breakAt |-> 0]

Archives(n, breaks) ==
  {Malformed} \cup
  { [malformed |-> FALSE, rec |-> f, breakAt |-> b] :
      f \in {g \in [Keys -> RecStatus] : \A k \in Keys : k > n => g[k] = "none"},
      b \in breaks }

TreeKeys(a) == {k \in Keys : a.rec[k] # "none"}

RECURSIVE Ascending(_)
Ascending(S) ==
  IF S = {} THEN <<>>
  ELSE LET m == CHOOSE x \in S : \A y \in S : x <= y
       IN <<m>> \o Ascending(S \ {m})

\* repo.ForEach: the keys handed to the callback, in order, before the walk
\* ends or fails
ForEach(a) ==
  Ascending({k \in TreeKeys(a) : a.breakAt = 0 \/ k < a.breakAt})

ForEachFails(a) == a.breakAt # 0

\* --------------------------------------------------------------- listings
Pages(n) == UNION {[1..m -> 1..n] : m \in PageLens}

\* SyncListBlobs as a function of the cursor passed
Listings(n) ==
  [ {EmptyCursor} \cup Tokens ->
      [cids : Pages(n), next : {NilCursor, EmptyCursor} \cup Tokens] ]

Range(s) == {s[j] : j \in 1..Len(s)}

\* ------------------------------------------------------------------ state
VARIABLES
  config,      \* Config: DownloadBlobs, DIDsFile
  file,        \* the content of the identifier file, when it can be read
  remoteRepo,  \* DID -> the archive SyncGetRepo returns
  remoteList,  \* DID -> the listing SyncListBlobs serves
  cancel,      \* the environment has signalled cancellation
  pc,          \* position in main / run / processRepo
  dids, i,     \* run: the identifier list and the loop index
  ident,       \* processRepo: the identity Lookup returned
  err,         \* what processRepo returns ("nil" or the failing call)
  trav,        \* unpackRecords: keys ForEach has still to hand to the callback
  cursor,      \* downloadBlobs: the cursor variable
  page,        \* downloadBlobs: the rest of resp.Cids
  respCursor,  \* downloadBlobs: resp.Cursor
  cars, commit, recs, blobs,   \* the sink, per DID
  runResult, exitCode,         \* what run returned, os.Exit
  reported,    \* stderr: the indices run reported as failed, in order
  fatal,       \* which fatal call of run failed ("none", "mkdir", "read")
  attempts,    \* the indices processRepo was called for, in order
  stages,      \* the stages this call of processRepo has started, in order
  faulted, completed,   \* indices whose processRepo returned an error / nil
  out,         \* units unpackRecords wrote in this call, in order
  visited,     \* keys the callback was called with in this call, in order
  skipped,     \* keys the callback reported and skipped in this call
  calls,       \* cursors passed to SyncListBlobs in this downloadBlobs run
  resps,       \* cursors returned by SyncListBlobs in this run
  listed,      \* content hashes of the pages returned in this run
  existed,     \* content hashes the sink held when this run started
  fetches, bwrites,     \* per hash: SyncGetBlob calls / blob writes of this run
  netErr,      \* the blob transport call that failed in this run, or "none"
  blobRuns,    \* DID -> how the last finished downloadBlobs run for it ended
  prevOut,     \* DID -> the units of the last unpackRecords call that walked its tree
  nCommit, nRec, nBlob  \* per unit: whole writes during this batch

sinkVars == <<cars, commit, recs, blobs>>
envVars  == <<config, file, remoteRepo, remoteList, cancel>>
unpVars  == <<out, visited, skipped, trav>>
blobVars == <<cursor, page, respCursor, calls, resps, listed, existed, fetches, bwrites,
             netErr>>
cntVars  == <<nCommit, nRec, nBlob>>
runVars  == <<dids, i, runResult, exitCode, reported, fatal, blobRuns, prevOut>>

vars == <<envVars, pc, ident, err, sinkVars, unpVars, blobVars, cntVars, runVars,
          attempts, stages, faulted, completed>>

NoIdent == [did |-> "none", pds |-> FALSE]
NoWalk  == [ran |-> FALSE, out |-> <<>>]
Zero(S) == [x \in S |-> 0]

InitWith(files, flags, repos, listings, sinks) ==
  /\ config \in [DownloadBlobs : flags, DIDsFile : {"", "dids.txt"}]
  /\ file \in files
  /\ remoteRepo \in repos
  /\ remoteList \in listings
  /\ cancel = FALSE
  /\ pc = "main"
  /\ dids = <<>> /\ i = 0
  /\ ident = NoIdent
  /\ err = "nil"
  /\ trav = <<>>
  /\ cursor = EmptyCursor /\ page = <<>> /\ respCursor = NilCursor
  /\ cars = [d \in DIDs |-> "absent"]
  /\ commit = [d \in DIDs |-> "absent"]
  /\ recs = [d \in DIDs |-> [k \in Keys |-> "absent"]]
  /\ blobs \in sinks
  /\ runResult = "none" /\ exitCode = -1
  /\ reported = <<>> /\ fatal = "none"
  /\ attempts = <<>> /\ faulted = {} /\ completed = {}
  /\ stages = <<>>
  /\ out = <<>> /\ visited = <<>> /\ skipped = {}
  /\ calls = <<>> /\ resps = <<>> /\ listed = {} /\ existed = {}
  /\ fetches = Zero(Cids) /\ bwrites = Zero(Cids) /\ netErr = "none"
  /\ blobRuns = [d \in DIDs |-> "none"]
  /\ prevOut = [d \in DIDs |-> NoWalk]
  /\ nCommit = Zero(DIDs)
  /\ nRec = [d \in DIDs |-> Zero(Keys)]
  /\ nBlob = [d \in DIDs |-> Zero(Cids)]

\* ---------------------------------------------------------------- actions
\* ctx.Done() of the contexts of run and processRepo, given what the
\* environment signalled: both are context.Background(), which is never done
CtxDone(sig) == FALSE

\* how a call that takes ctx can end (TRUE: it returns its result): a call
\* whose context is done fails
CtxResults == IF CtxDone(cancel) THEN {FALSE} ELSE BOOLEAN

\* processRepo returns e to the loop of run
Return(e) ==
  /\ err' = e
  /\ pc' = "ret"
  /\ faulted' = IF e = "nil" THEN faulted ELSE faulted \cup {i}
  /\ completed' = IF e = "nil" THEN completed \cup {i} ELSE completed

\* main: the usage check, then run
Main ==
  /\ pc = "main"
  /\ IF config.DIDsFile = ""
       THEN pc' = "exit" /\ exitCode' = 1
       ELSE pc' = "run" /\ UNCHANGED exitCode
  /\ UNCHANGED <<envVars, ident, err, sinkVars, unpVars, blobVars, cntVars,
                 dids, i, runResult, reported, fatal, blobRuns, prevOut,
                 attempts, faulted, completed, stages>>

\* run: ensureDirectories and getActivatedDIDs (os.ReadFile fails, or
\* readDIDsFromFile makes the list); main exits 1 when run fails
Run ==
  /\ pc = "run"
  /\ \E mk \in BOOLEAN, rd \in BOOLEAN :
       IF ~mk
         THEN /\ fatal' = "mkdir" /\ runResult' = "err" /\ exitCode' = 1
              /\ pc' = "exit" /\ UNCHANGED <<dids, i>>
       ELSE IF ~rd
         THEN /\ fatal' = "read" /\ runResult' = "err" /\ exitCode' = 1
              /\ pc' = "exit" /\ UNCHANGED <<dids, i>>
       ELSE /\ dids' = readDIDsFromFile(file) /\ i' = 1 /\ pc' = "loop"
            /\ UNCHANGED <<fatal, runResult, exitCode>>
  /\ UNCHANGED <<envVars, ident, err, sinkVars, unpVars, blobVars, cntVars,
                 reported, blobRuns, prevOut, attempts, faulted, completed, stages>>

\* mutant: run returns an error when an identifier failed
RunResultStrict(rep) == IF rep = <<>> THEN "ok" ELSE "err"

\* what run returns after the loop, given the failures it reported: nil
RunResult(rep) == "ok"

\* run: the range loop is over, run returns and main returns or exits 1
RunReturn ==
  /\ pc = "loop" /\ i > Len(dids)
  /\ runResult' = RunResult(reported)
  /\ exitCode' = IF RunResult(reported) = "ok" THEN 0 ELSE 1
  /\ pc' = "exit"
  /\ UNCHANGED <<envVars, ident, err, sinkVars, unpVars, blobVars, cntVars,
                 dids, i, reported, fatal, blobRuns, prevOut, attempts, faulted,
                 completed, stages>>

\* processRepo: ParseAtIdentifier and Lookup
ProcessRepo ==
  /\ pc = "loop" /\ i <= Len(dids)
  /\ stages' = <<"resolve">>
  /\ attempts' = Append(attempts, i)
  /\ IF ~ParseAtIdentifier(dids[i])
       THEN Return("parse") /\ UNCHANGED ident
       ELSE \E found \in CtxResults, pds \in BOOLEAN :
              IF ~found
                THEN Return("lookup") /\ UNCHANGED ident
                ELSE /\ ident' = [did |-> Lookup(dids[i]), pds |-> pds]
                     /\ pc' = "download"
                     /\ UNCHANGED <<err, faulted, completed>>
  /\ UNCHANGED <<envVars, sinkVars, unpVars, blobVars, cntVars, runVars>>

\* downloadRepo
DownloadRepo ==
  /\ pc = "download"
  /\ stages' = Append(stages, "download")
  /\ IF ~ident.pds
       THEN Return("endpoint") /\ UNCHANGED cars
       ELSE \E got \in CtxResults, w \in WriteOutcomes :
              IF ~got
                THEN Return("getrepo") /\ UNCHANGED cars
                ELSE /\ cars' = [cars EXCEPT ![ident.did] = WriteFile(@, w)]
                     /\ IF w = "ok"
                          THEN pc' = "unpack" /\ UNCHANGED <<err, faulted, completed>>
                          ELSE Return("carwrite")
  /\ UNCHANGED <<envVars, ident, commit, recs, blobs, unpVars, blobVars, cntVars,
                 runVars, attempts>>

\* the archive unpackRecords reads: the bytes downloadRepo just wrote
Car(d) == remoteRepo[d]

CommitUnit == [unit |-> "commit", key |-> 0]
RecUnit(k) == [unit |-> "record", key |-> k]

\* mutant: the error of the commit write is dropped
CommitGateOpen(w) == TRUE

\* unpackRecords goes on to the records only when the commit write succeeded
CommitGate(w) == w = "ok"

\* unpackRecords up to the commit file: Open, ReadRepoFromCar, MarshalIndent,
\* WriteFile
UnpackRecords ==
  /\ pc = "unpack"
  /\ stages' = Append(stages, "export")
  /\ \E opened \in BOOLEAN, marshalled \in BOOLEAN, w \in WriteOutcomes :
       IF ~opened
         THEN Return("open") /\ UNCHANGED <<commit, out, trav, nCommit>>
       ELSE IF cars[ident.did] # "whole" \/ Car(ident.did).malformed
         THEN Return("readcar") /\ UNCHANGED <<commit, out, trav, nCommit>>
       ELSE IF ~marshalled
         THEN Return("marshal") /\ UNCHANGED <<commit, out, trav, nCommit>>
       ELSE /\ commit' = [commit EXCEPT ![ident.did] = WriteFile(@, w)]
            /\ out' = IF w = "ok" THEN <<CommitUnit>> ELSE out
            /\ nCommit' = IF w = "ok"
                            THEN [nCommit EXCEPT ![ident.did] = @ + 1]
                            ELSE nCommit
            /\ IF CommitGate(w)
                 THEN /\ trav' = ForEach(Car(ident.did))
                      /\ pc' = "foreach"
                      /\ UNCHANGED <<err, faulted, completed>>
                 ELSE Return("commitwrite") /\ UNCHANGED trav
  /\ UNCHANGED <<envVars, ident, cars, recs, blobs, visited, skipped, blobVars,
                 nRec, nBlob, runVars, attempts>>

\* mutant: no return after the GetRecord warning, the record is written anyway
OnRecordFallThrough(st) == IF st = "nojson" THEN "skip" ELSE "write"

\* mutant: a GetRecord failure is returned to ForEach, as carUnpack does
OnRecordAbort(st) ==
  IF st = "ok" THEN "write" ELSE IF st = "nojson" THEN "skip" ELSE "abort"

\* the callback: what it does with a key whose record is in state st
OnRecord(st) == IF st = "ok" THEN "write" ELSE "skip"

\* mutant: the error of a record write is dropped and the walk goes on
RecGateOpen(w) == TRUE

\* the callback returns nil, and ForEach goes on, only when the record write
\* succeeded
RecGate(w) == w = "ok"

\* one call of the ForEach callback
Callback ==
  /\ pc = "foreach" /\ trav # <<>>
  /\ LET k == Head(trav)
         d == ident.did
         todo == OnRecord(Car(d).rec[k])
     IN /\ visited' = Append(visited, k)
        /\ IF todo = "skip"
             THEN /\ skipped' = skipped \cup {k}
                  /\ trav' = Tail(trav)
                  /\ UNCHANGED <<pc, err, faulted, completed, recs, out, nRec>>
           ELSE IF todo = "abort"
             THEN /\ Return("getrecord")
                  /\ UNCHANGED <<skipped, trav, recs, out, nRec>>
           ELSE \E w \in WriteOutcomes :
                  /\ recs' = [recs EXCEPT ![d][k] = WriteFile(@, w)]
                  /\ out' = IF w = "ok" THEN Append(out, RecUnit(k)) ELSE out
                  /\ nRec' = IF w = "ok" THEN [nRec EXCEPT ![d][k] = @ + 1] ELSE nRec
                  /\ UNCHANGED skipped
                  /\ IF RecGate(w)
                       THEN /\ trav' = Tail(trav)
                            /\ UNCHANGED <<pc, err, faulted, completed>>
                       ELSE /\ Return("recwrite")
                            /\ UNCHANGED trav
  /\ UNCHANGED <<envVars, ident, cars, commit, blobs, blobVars, nCommit, nBlob,
                 runVars, attempts, stages>>

\* mutant: downloadBlobs is called whatever the configuration says
BlobsAlways(cfg) == TRUE

\* processRepo: if config.DownloadBlobs
BlobsEnabled(cfg) == cfg.DownloadBlobs

\* ForEach returns; unpackRecords returns; processRepo goes on to the blobs
ForEachEnd ==
  /\ pc = "foreach" /\ trav = <<>>
  /\ IF ForEachFails(Car(ident.did))
       THEN Return("walk")
     ELSE IF BlobsEnabled(config)
       THEN pc' = "blobs" /\ UNCHANGED <<err, faulted, completed>>
     ELSE Return("nil")
  /\ UNCHANGED <<envVars, ident, sinkVars, unpVars, blobVars, cntVars, runVars,
                 attempts, stages>>

\* downloadBlobs before the loop
DownloadBlobs ==
  /\ pc = "blobs"
  /\ stages' = Append(stages, "blobs")
  /\ existed' = {c \in Cids : StatOK(blobs[ident.did][c])}
  /\ IF ~ident.pds
       THEN Return("endpoint") /\ UNCHANGED cursor
       ELSE /\ cursor' = EmptyCursor /\ pc' = "list"
            /\ UNCHANGED <<err, faulted, completed>>
  /\ UNCHANGED <<envVars, ident, sinkVars, unpVars, page, respCursor, calls, resps,
                 listed, fetches, bwrites, netErr, cntVars, runVars, attempts>>

\* SyncListBlobs
SyncListBlobs ==
  /\ pc = "list" /\ Len(calls) < MaxCalls
  /\ calls' = Append(calls, cursor)
  /\ \E got \in CtxResults :
       IF ~got
         THEN /\ netErr' = "list"
              /\ Return("list")
              /\ UNCHANGED <<page, respCursor, resps, listed>>
         ELSE LET resp == remoteList[ident.did][cursor]
              IN /\ page' = resp.cids
                 /\ respCursor' = resp.next
                 /\ resps' = Append(resps, resp.next)
                 /\ listed' = listed \cup Range(resp.cids)
                 /\ pc' = "page"
                 /\ UNCHANGED <<err, faulted, completed, netErr>>
  /\ UNCHANGED <<envVars, ident, sinkVars, unpVars, cursor, existed, fetches,
                 bwrites, cntVars, runVars, attempts, stages>>

\* mutant: a failed fetch is skipped and the loop goes on
OnFetchContinue(got) == IF got THEN "write" ELSE "continue"

\* mutant: the fetched body is dropped instead of written
OnFetchDrop(got) == IF got THEN "continue" ELSE "return"

\* what downloadBlobs does after SyncGetBlob
OnFetch(got) == IF got THEN "write" ELSE "return"

\* one content hash of the page: Stat, SyncGetBlob, WriteFile
Blob ==
  /\ pc = "page" /\ page # <<>>
  /\ LET c == Head(page)
         d == ident.did
     IN IF StatOK(blobs[d][c])
          THEN /\ page' = Tail(page)
               /\ UNCHANGED <<pc, err, faulted, completed, blobs, fetches,
                              bwrites, nBlob, netErr>>
          ELSE /\ fetches' = [fetches EXCEPT ![c] = @ + 1]
               /\ \E got \in CtxResults, w \in WriteOutcomes :
                    /\ netErr' = IF got THEN netErr ELSE "getblob"
                    /\ IF OnFetch(got) = "return"
                         THEN /\ Return("getblob")
                              /\ UNCHANGED <<page, blobs, bwrites, nBlob>>
                       ELSE IF OnFetch(got) = "continue"
                         THEN /\ page' = Tail(page)
                              /\ UNCHANGED <<pc, err, faulted, completed, blobs,
                                             bwrites, nBlob>>
                       ELSE /\ blobs' = [blobs EXCEPT ![d][c] = WriteFile(@, w)]
                            /\ IF w = "ok"
                                 THEN /\ bwrites' = [bwrites EXCEPT ![c] = @ + 1]
                                      /\ nBlob' = [nBlob EXCEPT ![d][c] = @ + 1]
                                      /\ page' = Tail(page)
                                      /\ UNCHANGED <<pc, err, faulted, completed>>
                                 ELSE /\ Return("blobwrite")
                                      /\ UNCHANGED <<page, bwrites, nBlob>>
  /\ UNCHANGED <<envVars, ident, cars, commit, recs, unpVars, cursor, respCursor,
                 calls, resps, listed, existed, nCommit, nRec, runVars, attempts,
                 stages>>

\* resp.Cursor != nil && *resp.Cursor != ""
More(rc) == rc # NilCursor /\ rc # EmptyCursor

\* mutant: the cursor variable is never advanced
NextCursorStuck(cur, rc) == cur

\* cursor = *resp.Cursor
NextCursor(cur, rc) == rc

\* the page is done: next page, or downloadBlobs and processRepo return nil
PageEnd ==
  /\ pc = "page" /\ page = <<>>
  /\ IF More(respCursor)
       THEN /\ cursor' = NextCursor(cursor, respCursor)
            /\ pc' = "list"
            /\ UNCHANGED <<err, faulted, completed>>
       ELSE Return("nil") /\ UNCHANGED cursor
  /\ UNCHANGED <<envVars, ident, sinkVars, unpVars, page, respCursor, calls, resps,
                 listed, existed, fetches, bwrites, netErr, cntVars, runVars, attempts,
                 stages>>

\* processRepo returned after unpackRecords had walked the tree to the end
\* ForEach reached: it returned nil, or the error of ForEach itself
Walked == pc = "ret" /\ err \in {"nil", "walk", "list", "getblob", "blobwrite"}

\* mutant: run leaves the loop at the first identifier that fails
LoopNextBreak(e, idx, n) == IF e = "nil" THEN idx + 1 ELSE n + 1

\* the loop of run after processRepo returned e for index idx of n: continue
LoopNext(e, idx, n) == idx + 1

\* run: report the error of processRepo, if any, and take the next identifier
RunLoop ==
  /\ pc = "ret"
  /\ stages' = <<>>
  /\ reported' = IF err # "nil" THEN Append(reported, i) ELSE reported
  /\ i' = LoopNext(err, i, Len(dids))
  /\ pc' = "loop"
  /\ err' = "nil" /\ ident' = NoIdent
  /\ out' = <<>> /\ visited' = <<>> /\ skipped' = {} /\ trav' = <<>>
  /\ cursor' = EmptyCursor /\ page' = <<>> /\ respCursor' = NilCursor
  /\ calls' = <<>> /\ resps' = <<>> /\ listed' = {} /\ existed' = {}
  /\ fetches' = Zero(Cids) /\ bwrites' = Zero(Cids) /\ netErr' = "none"
  /\ prevOut' = IF Walked
                   THEN [prevOut EXCEPT ![ident.did] = [ran |-> TRUE, out |-> out]]
                   ELSE prevOut
  /\ blobRuns' = IF calls = <<>>
                    THEN blobRuns
                    ELSE [blobRuns EXCEPT ![ident.did] =
                            IF err = "nil" THEN "ok" ELSE "err"]
  /\ UNCHANGED <<envVars, sinkVars, cntVars, dids, runResult, exitCode, fatal,
                 attempts, faulted, completed>>

Next ==
  \/ Main \/ Run \/ RunReturn \/ ProcessRepo \/ DownloadRepo
  \/ UnpackRecords \/ Callback \/ ForEachEnd
  \/ DownloadBlobs \/ SyncListBlobs \/ Blob \/ PageEnd \/ RunLoop

\* the environment signals cancellation while run is at work; nothing in the
\* program waits for a signal
Cancel ==
  /\ ~cancel /\ pc \notin {"main", "run", "exit"}
  /\ cancel' = TRUE
  /\ UNCHANGED <<config, file, remoteRepo, remoteList, pc, ident, err, sinkVars,
                 unpVars, blobVars, cntVars, runVars, attempts, faulted, completed,
                 stages>>

NextCancel == Next \/ Cancel

\* --------------------------------------------------------- specifications
Lists(ids, n) == UNION {[1..m -> ids] : m \in 0..n}

OneKeyTree == [malformed |-> FALSE, rec |-> [k \in Keys |-> IF k = 1 THEN "ok" ELSE "none"],
               breakAt |-> 0]
OnePage == [c \in {EmptyCursor} \cup Tokens |-> [cids |-> <<1>>, next |-> NilCursor]]
EmptySink == [d \in DIDs |-> [c \in Cids |-> "absent"]]

\* the batch: every identifier list up to MaxDids, small repositories
Init ==
  InitWith({OnePerLine(l) : l \in Lists(Idents, MaxDids)}, BOOLEAN,
           [DIDs -> {Malformed, OneKeyTree}], {[d \in DIDs |-> OnePage]}, {EmptySink})

Spec == Init /\ [][Next]_vars

OnlyA(x, other) == [d \in DIDs |-> IF d = "did:plc:a" THEN x ELSE other]

\* one repository, every archive over the keys: unpackRecords in detail
InitUnpack ==
  InitWith({OnePerLine(l) : l \in {<<"did:plc:a">>, <<"alice.test">>}}, BOOLEAN,
           {OnlyA(a, Malformed) : a \in Archives(NumKeys, 0..NumKeys + 1)},
           {[d \in DIDs |-> OnePage]}, {EmptySink})

SpecUnpack == InitUnpack /\ [][Next]_vars

\* one repository named once or twice, every listing over the content hashes,
\* every sink with blobs left by an earlier process: downloadBlobs in detail
InitBlobs ==
  InitWith({OnePerLine(l) : l \in {<<"did:plc:a">>, <<"did:plc:a", "did:plc:a">>}},
           {TRUE}, {[d \in DIDs |-> OneKeyTree]},
           {OnlyA(l, OnePage) : l \in Listings(NumCids)},
           {OnlyA(b, [c \in Cids |-> "absent"]) : b \in [Cids -> {"absent", "old"}]})

SpecBlobs == InitBlobs /\ [][Next]_vars

\* one downloadBlobs run over every listing
InitPaging ==
  InitWith({OnePerLine(<<"did:plc:a">>)}, {TRUE}, {[d \in DIDs |-> OneKeyTree]},
           {OnlyA(l, OnePage) : l \in Listings(NumCids)},
           {OnlyA(b, [c \in Cids |-> "absent"]) : b \in [Cids -> {"absent", "old"}]})

\* the program is sequential and every call returns: it always takes its next step
SpecPagingFair == InitPaging /\ [][Next]_vars /\ WF_vars(Next)

\* one repository named twice, every archive over the keys: unpackRecords run
\* twice against the same archive
InitTwice ==
  InitWith({OnePerLine(<<"did:plc:a", "did:plc:a">>)}, {TRUE},
           {OnlyA(a, Malformed) : a \in Archives(NumKeys, 0..NumKeys + 1)},
           {[d \in DIDs |-> OnePage]}, {EmptySink})

SpecTwice == InitTwice /\ [][Next]_vars

\* every identifier file up to MaxFile characters
InitRead ==
  InitWith(Files({"did:plc:a", "not an id", NewLine} \cup Spaces, MaxFile), {TRUE},
           {[d \in DIDs |-> OneKeyTree]}, {[d \in DIDs |-> OnePage]}, {EmptySink})

SpecRead == InitRead /\ [][Next]_vars

\* the batch of up to two identifiers, with the environment that may signal
\* cancellation
InitCancel ==
  InitWith({OnePerLine(l) : l \in Lists(DIDs, 2)}, {TRUE},
           {[d \in DIDs |-> OneKeyTree]}, {[d \in DIDs |-> OnePage]}, {EmptySink})

SpecCancel == InitCancel /\ [][NextCancel]_vars

\* ------------------------------------------------------------------ claims
SeqTo(n) == [j \in 1..n |-> j]

InPipeline == pc \in {"download", "unpack", "foreach", "blobs", "list", "page", "ret"}

\* unpackRecords returned nil in this call of processRepo
UnpackDone ==
  \/ pc \in {"blobs", "list", "page"}
  \/ pc = "ret" /\ err \in {"nil", "list", "getblob", "blobwrite"}

\* the identifier of this call is fully processed: commit, every record that
\* resolves, and (when enabled) every listed blob are in the sink
FullyProcessed ==
  LET d == ident.did
  IN /\ commit[d] = "whole"
     /\ \A k \in Keys : Car(d).rec[k] = "ok" => recs[d][k] = "whole"
     /\ \A k \in Keys : Car(d).rec[k] \in {"noblock", "nojson"} => k \in skipped
     /\ config.DownloadBlobs =>
          /\ calls # <<>>
          /\ \A c \in listed : StatOK(blobs[d][c])

\* C1: batch fault isolation.  processRepo is called once per position of the
\* list, in list order; a call that fails is reported and the loop goes on;
\* a call that does not fail leaves its identifier fully processed; when run
\* returns, every position was attempted, the reported positions are exactly
\* the failed ones and the others completed.
C1_FaultIsolation ==
  /\ attempts = SeqTo(Len(attempts))
  /\ pc = "loop" => Len(attempts) = i - 1
  /\ InPipeline => Len(attempts) = i
  /\ faulted \cap completed = {}
  /\ Range(reported) \subseteq faulted
  /\ \A a, b \in 1..Len(reported) : a < b => reported[a] < reported[b]
  /\ (pc = "ret" /\ err = "nil") => FullyProcessed
  /\ (pc = "exit" /\ runResult = "ok") =>
        /\ Len(attempts) = Len(dids)
        /\ Range(reported) = faulted
        /\ Len(reported) = Cardinality(faulted)
        /\ completed = (1..Len(dids)) \ faulted

\* three identifiers, the second failed and was reported, one and three completed
C1_Witness ==
  /\ pc = "exit" /\ runResult = "ok"
  /\ Len(dids) = 3 /\ ParseAtIdentifier(dids[2])
  /\ reported = <<2>> /\ completed = {1, 3}
  /\ config.DownloadBlobs
  /\ nBlob["did:plc:a"][1] = 1

\* C8: run returns an error, and the process exits 1 from run, exactly when
\* ensureDirectories or reading the identifier file failed, and then no
\* identifier was attempted; otherwise run returns nil and the process exits
\* 0, however many identifiers failed.
C8_RunResult ==
  pc = "exit" =>
    /\ (runResult = "err") <=> (fatal # "none")
    /\ runResult = "err" => attempts = <<>> /\ exitCode = 1
    /\ runResult = "ok" => exitCode = 0 /\ Len(attempts) = Len(dids)
    /\ runResult = "none" => config.DIDsFile = "" /\ exitCode = 1 /\ attempts = <<>>

\* every identifier of a list of three failed, and run returned nil
C8_Witness ==
  /\ pc = "exit" /\ runResult = "ok" /\ exitCode = 0
  /\ Len(dids) = 3 /\ Len(reported) = 3

IsRecord(u) == u.unit = "record"

\* the keys of the record units of a sequence of units, in order
RecKeys(o) ==
  LET r == SelectSeq(o, IsRecord)
  IN [j \in 1..Len(r) |-> r[j].key]

Last(q) == q[Len(q)]
Front(q) == SubSeq(q, 1, Len(q) - 1)

Unreadable(a) == {k \in Keys : a.rec[k] \in {"noblock", "nojson"}}

\* C2: commit before records.  In one call of unpackRecords the commit unit
\* is the first unit written and is written once; a record unit is written
\* only after it, with the commit file whole; when the tree has no key and
\* unpackRecords returns nil, the commit unit is the only unit written.
C2_CommitFirst ==
  /\ \A j \in 1..Len(out) : (out[j] = CommitUnit) <=> (j = 1)
  /\ out # <<>> => commit[ident.did] = "whole"
  /\ (UnpackDone /\ TreeKeys(Car(ident.did)) = {}) =>
        /\ out = <<CommitUnit>>
        /\ visited = <<>>
        /\ \A k \in Keys : recs[ident.did][k] = "absent"

\* an empty tree: unpackRecords returned nil having written the commit only
C2_Witness ==
  /\ pc = "ret" /\ err = "nil"
  /\ TreeKeys(Car(ident.did)) = {}
  /\ out = <<CommitUnit>> /\ commit[ident.did] = "whole"

\* C3: record export order.  The keys the callback is called with are a
\* prefix of the ForEach order, strictly ascending; the record units written
\* are, in that order, the visited keys without the reported and skipped
\* ones (those whose record does not resolve or marshal) and without the key
\* at which a failed sink write ended the traversal; no key is written twice.
C3_ExportOrder ==
  ident.did \in DIDs =>
    LET a == Car(ident.did)
        w == RecKeys(out)
        done == IF pc = "ret" /\ err = "recwrite" THEN Front(visited) ELSE visited
        Kept(k) == k \notin Unreadable(a)
    IN /\ Len(visited) <= Len(ForEach(a))
       /\ visited = SubSeq(ForEach(a), 1, Len(visited))
       /\ \A x, y \in 1..Len(w) : x < y => w[x] < w[y]
       /\ w = SelectSeq(done, Kept)
       /\ skipped = Range(visited) \cap Unreadable(a)

\* three keys walked, the first and the last skipped, the middle one written
C3_Witness ==
  /\ pc = "ret" /\ err = "nil"
  /\ visited = <<1, 2, 3>> /\ skipped = {1, 3}
  /\ out = <<CommitUnit, RecUnit(2)>>

\* C4: per-record failure isolation.  A key whose record does not resolve or
\* marshal is reported and skipped and never ends the traversal: when
\* unpackRecords fails in the callback, the key at hand is one whose record
\* resolved; and when the traversal runs to its end, every key of the tree
\* whose record resolves has its unit written, and every other key is
\* skipped and not written.
C4_RecordIsolation ==
  ident.did \in DIDs =>
    LET a == Car(ident.did)
        d == ident.did
    IN /\ (pc = "ret" /\ err \in {"getrecord", "recwrite"}) =>
            visited # <<>> /\ a.rec[Last(visited)] = "ok"
       /\ UnpackDone =>
            \A k \in TreeKeys(a) :
              /\ a.rec[k] = "ok" =>
                   RecUnit(k) \in Range(out) /\ recs[d][k] = "whole"
              /\ k \in Unreadable(a) =>
                   k \in skipped /\ RecUnit(k) \notin Range(out)

\* the record of key 2 does not marshal; keys 1 and 3 are written and
\* processRepo returns nil
C4_Witness ==
  /\ pc = "ret" /\ err = "nil"
  /\ Car(ident.did).rec[2] = "nojson" /\ skipped = {2}
  /\ out = <<CommitUnit, RecUnit(1), RecUnit(3)>>

\* C5: idempotence of blob sync.  Once a downloadBlobs run for a repository
\* has returned nil, a later run for the same identifier in the batch (same
\* listing, blobs in the sink touched by that run only) calls SyncGetBlob
\* zero times and writes no blob.
C5_Idempotent ==
  (ident.did \in DIDs /\ blobRuns[ident.did] = "ok") =>
     \A c \in Cids : fetches[c] = 0 /\ bwrites[c] = 0

\* the second run for the identifier went through both pages of a listing
\* whose blobs the first run had fetched, and returned nil without a fetch
C5_Witness ==
  /\ pc = "ret" /\ err = "nil" /\ i = 2 /\ dids[1] = dids[2]
  /\ blobRuns[ident.did] = "ok"
  /\ Len(calls) = 2 /\ listed = Cids
  /\ \A c \in Cids : nBlob[ident.did][c] = 1 /\ fetches[c] = 0

\* C6: at most one fetch per content hash per run.  In one downloadBlobs run
\* no hash is fetched or written twice, whatever the pages repeat; when the
\* run returns nil, each listed hash the sink did not hold at the start was
\* fetched and written exactly once and no other hash was fetched (so with
\* an empty sink and two disjoint pages: the union, once each).
C6_FetchOnce ==
  /\ \A c \in Cids : fetches[c] <= 1 /\ bwrites[c] <= fetches[c]
  /\ (pc = "ret" /\ err = "nil" /\ calls # <<>>) =>
        \A c \in Cids :
          LET n == IF c \in listed \ existed THEN 1 ELSE 0
          IN fetches[c] = n /\ bwrites[c] = n

\* two pages with disjoint hashes into an empty sink: each fetched once
C6_Witness ==
  /\ pc = "ret" /\ err = "nil" /\ Len(calls) = 2 /\ existed = {}
  /\ remoteList[ident.did][EmptyCursor].cids = <<1>>
  /\ remoteList[ident.did][1].cids = <<2>>
  /\ \A c \in Cids : fetches[c] = 1 /\ bwrites[c] = 1
  /\ \A c \in Cids : blobs[ident.did][c] = "whole"

\* C7: blob failure propagation.  When SyncListBlobs or SyncGetBlob fails,
\* downloadBlobs and processRepo return that error at once (no further
\* listing, fetch or write in this run), the failing step and the report
\* leave every file of the sink as it was, and run reports the identifier
\* and goes on to the next one.
C7_BlobFailure ==
  /\ [](netErr # "none" => (pc = "ret" /\ err = netErr /\ i \in faulted))
  /\ [][(netErr = "none" /\ netErr' # "none") => sinkVars' = sinkVars]_vars
  /\ [][(pc = "ret" /\ netErr # "none") =>
          /\ sinkVars' = sinkVars
          /\ reported' = Append(reported, i)
          /\ pc' = "loop" /\ i' = i + 1]_vars

\* a fetch failed on the second page, after a blob of the first page was
\* written; commit and record are in the sink and another identifier follows
C7_Witness ==
  /\ netErr = "getblob" /\ Len(calls) = 2 /\ i = 1 /\ Len(dids) = 2
  /\ \E c \in Cids : bwrites[c] = 1 /\ blobs[ident.did][c] = "whole"
  /\ commit[ident.did] = "whole" /\ recs[ident.did][1] = "whole"

\* from cursor c the listing l answers with an absent or empty cursor within
\* n calls
RECURSIVE Ends(_, _, _)
Ends(l, c, n) ==
  /\ n > 0
  /\ \/ l[c].next \in {NilCursor, EmptyCursor}
     \/ Ends(l, l[c].next, n - 1)

C9_Protocol ==
  /\ Len(resps) <= Len(calls) /\ Len(calls) <= Len(resps) + 1
  /\ calls # <<>> => calls[1] = EmptyCursor
  /\ \A j \in 2..Len(calls) : calls[j] = resps[j - 1]
  /\ \A j \in 1..Len(resps) : j < Len(calls) => resps[j] \notin {NilCursor, EmptyCursor}
  /\ (pc = "list" /\ calls # <<>>) =>
        /\ page = <<>>
        /\ \A c \in listed : blobs[ident.did][c] # "absent"
  /\ (pc = "ret" /\ err = "nil" /\ calls # <<>>) =>
        /\ Len(resps) = Len(calls)
        /\ Last(resps) \in {NilCursor, EmptyCursor}
        /\ page = <<>>

\* C9: pagination protocol and termination.  The first listing call passes
\* the empty cursor, each later call the cursor the call before returned;
\* every hash of a page is handled before the next call; the run returns nil
\* only after a response with an absent or empty cursor, and with such a
\* response in hand and the page done it returns nil at once; and whenever
\* the listing ends within the calls left, the run eventually returns.
C9_Pagination ==
  /\ []C9_Protocol
  /\ [][(pc = "page" /\ page = <<>> /\ respCursor \in {NilCursor, EmptyCursor})
          => (pc' = "ret" /\ err' = "nil")]_vars
  /\ [][(pc = "page" /\ page = <<>> /\ respCursor \notin {NilCursor, EmptyCursor})
          => (pc' = "list" /\ cursor' = respCursor)]_vars
  /\ (pc = "list" /\ Ends(remoteList[ident.did], cursor, MaxCalls - Len(calls)))
        ~> (pc = "ret")

\* a run of two listing calls, the second with the cursor the first
\* returned, ended by an empty (not absent) cursor
C9_Witness ==
  /\ pc = "ret" /\ err = "nil"
  /\ calls = <<EmptyCursor, 1>> /\ resps = <<1, EmptyCursor>>
  /\ listed = Cids

\* positions attempted so far whose identifier resolves to d / that completed
Occurrences(d) ==
  {j \in Range(attempts) : ParseAtIdentifier(dids[j]) /\ Lookup(dids[j]) = d}
Completions(d) == {j \in completed : Lookup(dids[j]) = d}

\* C10 as stated: within one batch run every logical unit (commit, record,
\* blob of a repository) is written exactly once, for every identifier list:
\* never more than once, and once when run returns for every unit of a
\* repository whose pipeline completed.
C10_ExactlyOnce ==
  /\ \A d \in DIDs :
       /\ nCommit[d] <= 1
       /\ \A k \in Keys : nRec[d][k] <= 1
       /\ \A c \in Cids : nBlob[d][c] <= 1
  /\ pc = "exit" =>
       \A j \in completed :
         LET d == Lookup(dids[j])
         IN /\ nCommit[d] = 1
            /\ \A k \in Keys : Car(d).rec[k] = "ok" => nRec[d][k] = 1

\* C10 amended: a commit or record unit is written at most once per call of
\* processRepo, so at most once per list position whose identifier resolves
\* to its repository, and at least once per such position that completed
\* (records that do not resolve are never written); a record is written
\* only in a call that wrote the commit; a blob unit is written at most once
\* in the batch.
C10_OncePerOccurrence ==
  /\ \A x, y \in 1..Len(out) : x < y => out[x] # out[y]
  /\ \A c \in Cids : bwrites[c] <= 1
  /\ \A d \in DIDs :
       /\ Cardinality(Completions(d)) <= nCommit[d]
       /\ nCommit[d] <= Cardinality(Occurrences(d))
       /\ \A k \in Keys :
            /\ nRec[d][k] <= nCommit[d]
            /\ Car(d).rec[k] = "ok" => Cardinality(Completions(d)) <= nRec[d][k]
            /\ Car(d).rec[k] # "ok" => nRec[d][k] = 0
       /\ \A c \in Cids : nBlob[d][c] <= 1

\* a handle and the DID it resolves to in one list: the commit and the
\* record of the repository were written twice, the blob once
C10_Witness ==
  /\ pc = "exit" /\ dids = <<"alice.test", "did:plc:a">>
  /\ completed = {1, 2}
  /\ nCommit["did:plc:a"] = 2 /\ nRec["did:plc:a"][1] = 2
  /\ nBlob["did:plc:a"][1] = 1

\* the places where a file is cut into lines: its newlines and its two ends
Cuts(f) == {0, Len(f) + 1} \cup {p \in 1..Len(f) : f[p] = NewLine}

\* the lines of a file, each as the two cuts that bound it
LineSpans(f) ==
  {sp \in Cuts(f) \X Cuts(f) :
     sp[1] < sp[2] /\ ~ \E c \in Cuts(f) : sp[1] < c /\ c < sp[2]}

\* the places of a line that hold something other than white space
Inked(f, sp) == {p \in (sp[1] + 1)..(sp[2] - 1) : ~IsSpace(f[p])}

NonBlank(f) == {sp \in LineSpans(f) : Inked(f, sp) # {}}

Min(S) == CHOOSE x \in S : \A y \in S : x <= y
Max(S) == CHOOSE x \in S : \A y \in S : y <= x

\* getActivatedDIDs returned the list
HasRead == pc \in {"loop", "download", "unpack", "foreach", "blobs", "list", "page", "ret"}
             \/ (pc = "exit" /\ runResult = "ok")

\* C11: identifier source.  When the file is read, the list holds one entry
\* per line (the file cut at its newlines) that has a character other than
\* white space, in the order of the lines, equal lines kept, and the entry
\* is the line from its first to its last such character; when run fails
\* (the file could not be read) the list is empty.
C11_ReadDIDs ==
  /\ fatal # "none" => dids = <<>>
  /\ HasRead =>
       /\ fatal = "none"
       /\ Len(dids) = Cardinality(NonBlank(file))
       /\ \A sp \in NonBlank(file) :
            LET j == 1 + Cardinality({o \in NonBlank(file) : o[1] < sp[1]})
                ink == Inked(file, sp)
            IN dids[j] = String(SubSeq(file, Min(ink), Max(ink)))

\* a file with CR LF line ends, a blank line and the same identifier twice
C11_Witness ==
  /\ HasRead
  /\ file = <<"did:plc:a", "\r", "\n", "\n", "did:plc:a">>
  /\ dids = <<"did:plc:a", "did:plc:a">>
  /\ completed = {1, 2}

\* the next step of the pipeline is a network call: SyncGetRepo,
\* SyncListBlobs or SyncGetBlob
NetInFlight ==
  \/ pc = "download" /\ ident.pds
  \/ pc = "list"
  \/ pc = "page" /\ page # <<>> /\ ~StatOK(blobs[ident.did][Head(page)])

NoPartialUnit ==
  \A d \in DIDs :
    /\ \A k \in Keys : recs[d][k] # "partial"
    /\ \A c \in Cids : blobs[d][c] # "partial"

\* C12 as stated: once cancellation is signalled, a network call in flight
\* aborts (it fails, processRepo returns its error and the sink is as it
\* was), the pipeline stops (no further identifier is started), and no
\* record or blob unit is partially written.
C12_Cancellation ==
  [][ /\ (cancel /\ NetInFlight) =>
            /\ pc' = "ret" /\ err' \in {"getrepo", "list", "getblob"}
            /\ sinkVars' = sinkVars
      /\ cancel => attempts' = attempts
      /\ cancel' => NoPartialUnit' ]_vars

\* unpackRecords of this call has walked the tree to the end ForEach reached
UnpackEnded == UnpackDone \/ (pc = "ret" /\ err = "walk")

IsPrefix(p, q) == Len(p) <= Len(q) /\ p = SubSeq(q, 1, Len(p))

\* C13: deterministic output.  When an earlier call of unpackRecords in the
\* batch walked the archive of the repository to the end, a later call
\* against the same archive writes the same units in the same order: at
\* every moment what it has written is a prefix of what the earlier call
\* wrote, and when it too has walked the tree (no file-system failure cut it
\* short) its sequence is the same, commit first, every unit whole in the
\* sink, whatever the earlier call left there.
C13_Deterministic ==
  (ident.did \in DIDs /\ prevOut[ident.did].ran) =>
     /\ IsPrefix(out, prevOut[ident.did].out)
     /\ UnpackEnded =>
          /\ out = prevOut[ident.did].out
          /\ out[1] = CommitUnit /\ commit[ident.did] = "whole"
          /\ \A k \in Keys : RecUnit(k) \in Range(out) => recs[ident.did][k] = "whole"

\* the second call for the repository wrote the commit and the records of
\* keys 1 and 3 (key 2 does not resolve), as the first call had
C13_Witness ==
  /\ pc = "ret" /\ err = "nil" /\ i = 2
  /\ prevOut[ident.did] = [ran |-> TRUE, out |-> <<CommitUnit, RecUnit(1), RecUnit(3)>>]
  /\ out = <<CommitUnit, RecUnit(1), RecUnit(3)>>
  /\ skipped = {2} /\ nRec[ident.did][3] = 2

AllStages == <<"resolve", "download", "export", "blobs">>

\* the stage in which processRepo got the error e
StageOf(e) ==
  IF e \in {"parse", "lookup"} THEN "resolve"
  ELSE IF e \in {"endpoint", "getrepo", "carwrite"} THEN "download"
  ELSE IF e \in {"list", "getblob", "blobwrite"} THEN "blobs"
  ELSE "export"

\* record export of this call completed: the commit and every record that
\* resolves are written, every key of the tree was handed to the callback
ExportComplete ==
  LET a == Car(ident.did)
  IN /\ out # <<>> /\ out[1] = CommitUnit /\ commit[ident.did] = "whole"
     /\ ~ForEachFails(a) /\ visited = ForEach(a) /\ trav = <<>>
     /\ \A k \in TreeKeys(a) : a.rec[k] = "ok" => RecUnit(k) \in Range(out)

\* C14: stage gating.  The stages of one call of processRepo start in the
\* order resolve, download, export, blobs, none twice; a stage that fails
\* is the last one of the call; a call that returns nil ran the first three
\* and, exactly when blob download is enabled, the fourth; a listing or
\* fetch call is made only in the blobs stage, which starts only when blob
\* download is enabled and record export completed; and a call that fails
\* in resolution, for lack of an endpoint, in the transport or in decoding
\* the archive has written no commit or record unit.
C14_StageGating ==
  /\ IsPrefix(stages, AllStages)
  /\ (pc = "ret" /\ err # "nil") => Last(stages) = StageOf(err)
  /\ (pc = "ret" /\ err = "nil") =>
        stages = SubSeq(AllStages, 1, IF config.DownloadBlobs THEN 4 ELSE 3)
  /\ (calls # <<>> \/ \E c \in Cids : fetches[c] > 0) => "blobs" \in Range(stages)
  /\ "blobs" \in Range(stages) => config.DownloadBlobs /\ ExportComplete
  /\ (pc = "ret" /\ err \in {"parse", "lookup", "endpoint", "getrepo", "readcar"}) =>
        out = <<>> /\ visited = <<>> /\ calls = <<>>

\* blob download is enabled and the archive does not decode: three stages
\* started, nothing was written and no listing call was made
C14_Witness ==
  /\ pc = "ret" /\ err = "readcar" /\ config.DownloadBlobs
  /\ stages = <<"resolve", "download", "export">>
  /\ cars[ident.did] = "whole" /\ commit[ident.did] = "absent"
  /\ out = <<>> /\ calls = <<>>

\* C15: existing blobs are left untouched.  A listed hash the sink held when
\* the run started is neither fetched nor written in the run; no step ever
\* changes a blob file that exists, whatever it holds (bytes of an earlier
\* process, or the rest of a failed write); and a blob file changes only in
\* the step of downloadBlobs that fetched that same hash successfully.
C15_ExistingUntouched ==
  /\ [](\A c \in existed : fetches[c] = 0 /\ bwrites[c] = 0)
  /\ [][\A d \in DIDs, c \in Cids :
          blobs[d][c] # "absent" => blobs'[d][c] = blobs[d][c]]_vars
  /\ [][\A d \in DIDs, c \in Cids :
          blobs'[d][c] # blobs[d][c] =>
             /\ pc = "page" /\ d = ident.did /\ page # <<>> /\ c = Head(page)
             /\ fetches'[c] = fetches[c] + 1
             /\ netErr' = "none"]_vars

\* hash 1 was in the sink before the run and is listed, hash 2 was not: the
\* run returned nil, hash 1 holds its old bytes and only hash 2 was fetched
C15_Witness ==
  /\ pc = "ret" /\ err = "nil" /\ i = 1
  /\ existed = {1} /\ listed = Cids
  /\ blobs[ident.did][1] = "old" /\ blobs[ident.did][2] = "whole"
  /\ fetches[1] = 0 /\ fetches[2] = 1 /\ bwrites[2] = 1

\* the units of out are whole in the sink
OutInSink ==
  /\ CommitUnit \in Range(out) => commit[ident.did] = "whole"
  /\ \A k \in Keys : RecUnit(k) \in Range(out) => recs[ident.did][k] = "whole"

\* C16: sink write failures are fatal to the identifier.  When the commit
\* write fails, unpackRecords returns without a unit written or a key
\* visited; when a record write fails, the traversal stops at that key (a
\* write that leaves a truncated file is followed by the return): the key
\* is the last one visited, what was written is the commit and the
\* records of the keys before it that resolve, and these are whole in the
\* sink; in both cases processRepo returns the error without starting blob
\* sync, and run reports the identifier, leaves the sink as it is and goes
\* on to the next one.
C16_WriteFatal ==
  /\ [](pc = "ret" /\ err = "commitwrite" =>
          /\ out = <<>> /\ visited = <<>>
          /\ commit[ident.did] # "whole" \/ nCommit[ident.did] > 0)
  /\ [](pc = "ret" /\ err = "recwrite" =>
          LET a == Car(ident.did)
              k == Last(visited)
              Kept(x) == x \notin Unreadable(a)
          IN /\ a.rec[k] = "ok"
             /\ out = <<CommitUnit>> \o
                       [j \in 1..Len(SelectSeq(Front(visited), Kept)) |->
                          RecUnit(SelectSeq(Front(visited), Kept)[j])]
             /\ \A x \in Keys : x >= k => RecUnit(x) \notin Range(out)
             /\ \A x \in Keys : x > k => x \notin Range(visited)
             /\ OutInSink)
  /\ [](pc = "ret" /\ err \in {"commitwrite", "recwrite"} =>
          /\ i \in faulted
          /\ calls = <<>> /\ "blobs" \notin Range(stages)
          /\ \A c \in Cids : fetches[c] = 0)
  /\ [][/\ (pc = "unpack" /\ commit' # commit /\ commit'[ident.did] = "partial") =>
             pc' = "ret" /\ err' = "commitwrite"
        /\ (pc = "foreach" /\ recs' # recs /\ recs'[ident.did][Head(trav)] = "partial") =>
             pc' = "ret" /\ err' = "recwrite" /\ trav' = trav]_vars
  /\ [][(pc = "ret" /\ err \in {"commitwrite", "recwrite"}) =>
          /\ sinkVars' = sinkVars
          /\ reported' = Append(reported, i)
          /\ pc' = "loop" /\ i' = i + 1]_vars

\* the write of the record of key 2 failed after the commit and the record
\* of key 1 were written; key 3 is in the tree, blob download is enabled
\* and another identifier follows
C16_Witness ==
  /\ pc = "ret" /\ err = "recwrite" /\ i = 1 /\ Len(dids) = 2
  /\ config.DownloadBlobs
  /\ visited = <<1, 2>> /\ out = <<CommitUnit, RecUnit(1)>>
  /\ Car(ident.did).rec[3] = "ok" /\ recs[ident.did][3] = "absent"
  /\ recs[ident.did][1] = "whole" /\ recs[ident.did][2] = "partial"
  /\ calls = <<>>

====
